---- MODULE Spec2Model ----
(***************************************************************************)
(* A model of the course-data pipeline of CAB-Scrape:                      *)
(*   scrape.py         get_semester, organize_all_courses,                 *)
(*                     add_course_details, save_all_course_data            *)
(*   format.py         combine_with_and, format_saved_course_data_df       *)
(*   format_to_txt.py  formatted_json_to_txt                               *)
(* Python strings that the code indexes or splits (course codes, term      *)
(* codes) are sequences of one-character strings.                          *)
(***************************************************************************)
EXTENDS Integers, Sequences, FiniteSets, TLC

VARIABLES
  all_course_data,    \* organize_all_courses: the raw entries (its argument)
  processed_results,  \* organize_all_courses: the output list being built
  seen_courses,       \* organize_all_courses: course code -> index
  idx,                \* number of raw entries the first loop has consumed
  conv,               \* number of results the second loop has converted to lists
  pc,                 \* "entry" | "loop" | "convert" | "returned" | "raised"
  run,                \* which call of organize_all_courses this is (1 or 2)
  first_results,      \* what the first call gave, once a second call has begun
  srcdb,              \* get_semester: its argument
  sem_out,            \* get_semester: "pending", a label, or "Exception"
  stage,              \* save_all_course_data: "none" | "fetch" | "organize" |
                      \*   "enrich" | "saved" | "aborted"
  dept_i,             \* number of department codes fetched so far
  completed,          \* the enrichment loop's counter (enumerate)
  net,                \* "idle", or "waiting" for the details response
  request,            \* the details request in flight: department code and CRN
  fetched,            \* the details payloads received so far, in order
  exc,                \* the exception that ended save_all_course_data, or "none"
  courses_complete,   \* data/courses_complete.json: "absent" or its contents
  fmt_pc,             \* format_saved_course_data_df: "idle" | "formatted" | "KeyError"
  formatted,          \* data/courses_complete_formatted.json as format.py writes it
  txt_data,           \* formatted_json_to_txt: the course data it has read
  course_data_strings,\* formatted_json_to_txt: the strings built so far
  txt_pc,             \* formatted_json_to_txt: "idle" | "loop" | "written" | "TypeError"
  txt_file            \* data/courses_complete_txt.txt: "absent" or its text

orgVars == <<all_course_data, processed_results, seen_courses, idx, conv, pc>>
runVars == <<run, first_results>>
semVars == <<srcdb, sem_out>>
saveVars == <<stage, dept_i, completed, net, request, fetched, exc, courses_complete>>
fmtVars == <<fmt_pc, formatted>>
txtVars == <<txt_data, course_data_strings, txt_pc, txt_file>>
vars == <<orgVars, runVars, semVars, saveVars, fmtVars, txtVars>>
others == <<runVars, semVars, saveVars, fmtVars, txtVars>>

\* ---------------------------------------------------------------- bounds
MaxRaw == 3
MaxTermLen == 7

\* ---------------------------------------------------------------- helpers
Range(s) == {s[k] : k \in 1..Len(s)}

Perms(S) == {s \in [1..Cardinality(S) -> S] : Range(s) = S}

SeqsUpTo(S, n) == UNION {[1..k -> S] : k \in 0..n}

\* ---------------------------------------------------------------- data
Codes == {<<"C", "S", " ", "1">>, <<"M", "A", " ", "2">>}
Titles == {"Intro", "Topics"}
Crns == {"17001", "25002"}
OrgTermCodes == {<<"2","0","2","4","1","0">>, <<"2","0","2","4","2","0">>,
                 <<"2","0","2","4","9","9">>}

RawResults == [code : Codes, title : Titles, srcdb : OrgTermCodes, crn : Crns]

\* ---------------------------------------------------------------- get_semester
\* srcdb[4:], Python's slice from index 4 to the end
Slice4(s) == SubSeq(s, 5, Len(s))

get_semester_defaulting(s) ==
  LET semester == Slice4(s) IN
  IF semester = <<"1", "0">> THEN "Fall"
  ELSE IF semester = <<"1", "5">> THEN "Winter"
  ELSE IF semester = <<"2", "0">> THEN "Spring"
  ELSE "Summer"

get_semester(s) ==
  LET semester == Slice4(s) IN
  IF semester = <<"1", "0">> THEN "Fall"
  ELSE IF semester = <<"1", "5">> THEN "Winter"
  ELSE IF semester = <<"2", "0">> THEN "Spring"
  ELSE IF semester = <<"0", "0">> THEN "Summer"
  ELSE "Exception"

SemesterLabels == {"Fall", "Winter", "Spring", "Summer"}

\* ---------------------------------------------------------------- organize_all_courses
\* the dictionary appended for a code not seen before (lines 159-164)
NewCourse(course) ==
  [code |-> course.code, title |-> course.title,
   semesters |-> {get_semester(course.srcdb)}, crns |-> {course.crn}]

\* the key of seen_courses: course['code'] (lines 155, 157, 168)
SeenKeyCrn(course) == course.crn

SeenKey(course) == course.code

\* len(seen_courses), evaluated before the key is inserted (line 157)
SeenIndexAfterInsert == Cardinality(DOMAIN seen_courses) + 1

SeenIndex == Cardinality(DOMAIN seen_courses)

\* the two set.add calls on a stored course (lines 169-170)
MergeOverwriteCrns(result, course) ==
  [result EXCEPT !.semesters = @ \cup {get_semester(course.srcdb)},
                 !.crns = {course.crn}]

MergeInto(result, course) ==
  [result EXCEPT !.semesters = @ \cup {get_semester(course.srcdb)},
                 !.crns = @ \cup {course.crn}]

\* processed_results = [] and seen_courses = {} on entry (lines 151-153)
FreshResults == <<>>

StaleSeen == seen_courses

FreshSeen == <<>>

Enter ==
  /\ pc = "entry"
  /\ processed_results' = FreshResults
  /\ seen_courses' = FreshSeen
  /\ idx' = 0
  /\ conv' = 0
  /\ pc' = "loop"
  /\ UNCHANGED <<all_course_data, others>>

LoopUnseen ==
  /\ pc = "loop" /\ idx < Len(all_course_data)
  /\ LET course == all_course_data[idx + 1] IN
       /\ SeenKey(course) \notin DOMAIN seen_courses
       /\ seen_courses' = [c \in DOMAIN seen_courses \cup {SeenKey(course)} |->
                             IF c = SeenKey(course) THEN SeenIndex
                             ELSE seen_courses[c]]
       /\ IF get_semester(course.srcdb) = "Exception"
          THEN /\ pc' = "raised"
               /\ UNCHANGED <<processed_results, idx>>
          ELSE /\ processed_results' = Append(processed_results, NewCourse(course))
               /\ idx' = idx + 1
               /\ pc' = pc
  /\ UNCHANGED <<all_course_data, conv, others>>

\* the seen-code branch; stored_index is 0-based as in the code
LoopSeen ==
  /\ pc = "loop" /\ idx < Len(all_course_data)
  /\ LET course == all_course_data[idx + 1] IN
       /\ SeenKey(course) \in DOMAIN seen_courses
       /\ LET stored_index == seen_courses[SeenKey(course)] IN
          IF get_semester(course.srcdb) = "Exception"
          THEN /\ pc' = "raised"
               /\ UNCHANGED <<processed_results, idx>>
          ELSE /\ processed_results' =
                    [processed_results EXCEPT
                       ![stored_index + 1] = MergeInto(@, course)]
               /\ idx' = idx + 1
               /\ pc' = pc
  /\ UNCHANGED <<all_course_data, seen_courses, conv, others>>

LoopEnd ==
  /\ pc = "loop" /\ idx = Len(all_course_data)
  /\ pc' = "convert"
  /\ UNCHANGED <<all_course_data, processed_results, seen_courses, idx, conv, others>>

\* one iteration of `for result in processed_results`: list(set) in some order
ConvertOne ==
  /\ pc = "convert" /\ conv < Len(processed_results)
  /\ \E sems \in Perms(processed_results[conv + 1].semesters),
        crns \in Perms(processed_results[conv + 1].crns) :
       processed_results' =
         [processed_results EXCEPT ![conv + 1].semesters = sems,
                                   ![conv + 1].crns = crns]
  /\ conv' = conv + 1
  /\ UNCHANGED <<all_course_data, seen_courses, idx, pc, others>>

Return ==
  /\ pc = "convert" /\ conv = Len(processed_results)
  /\ pc' = "returned"
  /\ UNCHANGED <<all_course_data, processed_results, seen_courses, idx, conv, others>>

\* a second call on the same argument; the first call's outcome is kept aside
CallAgain ==
  /\ run = 1 /\ pc \in {"returned", "raised"}
  /\ first_results' = [outcome |-> pc,
                       value |-> IF pc = "returned" THEN processed_results ELSE <<>>]
  /\ run' = 2
  /\ pc' = "entry"
  /\ UNCHANGED <<all_course_data, processed_results, seen_courses, idx, conv,
                 semVars, saveVars, fmtVars, txtVars>>

InitOrg ==
  /\ all_course_data \in SeqsUpTo(RawResults, MaxRaw)
  /\ processed_results = <<>>
  /\ seen_courses = <<>>
  /\ idx = 0
  /\ conv = 0
  /\ pc = "entry"

InitIdle ==
  /\ run = 1
  /\ first_results = <<>>
  /\ srcdb = <<>>
  /\ sem_out = "pending"
  /\ stage = "none"
  /\ dept_i = 0
  /\ completed = 0
  /\ net = "idle"
  /\ request = <<>>
  /\ fetched = <<>>
  /\ exc = "none"
  /\ courses_complete = "absent"
  /\ fmt_pc = "idle"
  /\ formatted = "absent"
  /\ txt_data = <<>>
  /\ course_data_strings = <<>>
  /\ txt_pc = "idle"
  /\ txt_file = "absent"

Init == InitOrg /\ InitIdle

Next == Enter \/ LoopUnseen \/ LoopSeen \/ LoopEnd \/ ConvertOne \/ Return

Spec == Init /\ [][Next]_vars

\* two calls of organize_all_courses on one argument
TwiceRawResults == {r \in RawResults : r.title = "Intro"}

InitTwice ==
  /\ InitIdle
  /\ all_course_data \in SeqsUpTo(TwiceRawResults, MaxRaw)
  /\ processed_results = <<>>
  /\ seen_courses = <<>>
  /\ idx = 0
  /\ conv = 0
  /\ pc = "entry"

NextTwice == Next \/ CallAgain

SpecTwice == InitTwice /\ [][NextTwice]_vars

\* ---------------------------------------------------------------- save_all_course_data
MaxDeptCourses == 1

\* the first column of data/dept_codes.txt (lines 202-203)
dept_codes == << <<"C", "S">>, <<"M", "A">> >>

\* what get_dept_courses may return for one department
DeptResults == SeqsUpTo(TwiceRawResults, MaxDeptCourses)

\* one iteration of `for code in dept_codes` (lines 207-210)
FetchDept ==
  /\ stage = "fetch" /\ dept_i < Len(dept_codes)
  /\ \E dept_courses \in DeptResults :
       all_course_data' = all_course_data \o dept_courses
  /\ dept_i' = dept_i + 1
  /\ UNCHANGED <<processed_results, seen_courses, idx, conv, pc, runVars, semVars,
                 stage, completed, net, request, fetched, exc, courses_complete,
                 fmtVars, txtVars>>

\* line 213: the call of organize_all_courses
CallOrganize ==
  /\ stage = "fetch" /\ dept_i = Len(dept_codes)
  /\ stage' = "organize"
  /\ pc' = "entry"
  /\ UNCHANGED <<all_course_data, processed_results, seen_courses, idx, conv,
                 runVars, semVars, dept_i, completed, net, request, fetched, exc,
                 courses_complete, fmtVars, txtVars>>

\* get_semester's exception leaves organize_all_courses and save_all_course_data
OrganizeRaises ==
  /\ stage = "organize" /\ pc = "raised"
  /\ stage' = "aborted"
  /\ exc' = "Invalid srcdb for semester lookup"
  /\ UNCHANGED <<orgVars, runVars, semVars, dept_i, completed, net, request,
                 fetched, courses_complete, fmtVars, txtVars>>

\* lines 213-216: organize_all_courses has returned, the enrichment loop begins
EnrichStart ==
  /\ stage = "organize" /\ pc = "returned"
  /\ stage' = "enrich"
  /\ completed' = 0
  /\ UNCHANGED <<orgVars, runVars, semVars, dept_i, net, request, fetched, exc,
                 courses_complete, fmtVars, txtVars>>

\* ---------------------------------------------------------------- add_course_details
Min(S) == CHOOSE n \in S : \A m \in S : n <= m

\* course_data['code'].split(' ')[0]
SplitFirst(s) ==
  LET spaces == {k \in 1..Len(s) : s[k] = " "} IN
  IF spaces = {} THEN s ELSE SubSeq(s, 1, Min(spaces) - 1)

keys_to_keep ==
  {"seats", "description", "registration_restrictions", "clssnotes",
   "resources_critical_review_html", "resources_syllabus_html",
   "resources_materials_html", "exam_html", "meeting_html",
   "instructordetail_html", "regdemog_json", "all_sections"}

filtered_data(individual_course_data) ==
  [key \in keys_to_keep \cap DOMAIN individual_course_data |->
     individual_course_data[key]]

\* course_data['details'] = filtered_data
WithDetails(course_data, details) ==
  [f \in DOMAIN course_data \cup {"details"} |->
     IF f = "details" THEN details ELSE course_data[f]]

\* the details payloads the catalog may answer with
PayloadKeys == {"description", "seats", "cart_opts", "hours_html"}

PayloadValue(key) == "<" \o key \o ">"

Payloads == {[key \in K |-> PayloadValue(key)] : K \in SUBSET PayloadKeys}

\* lines 185-187 up to the POST of get_course_details
SendDetailRequest ==
  /\ stage = "enrich" /\ net = "idle" /\ completed < Len(processed_results)
  /\ LET course_data == processed_results[completed + 1] IN
       request' = [dept_code |-> SplitFirst(course_data.code),
                   crn |-> course_data.crns[1]]
  /\ net' = "waiting"
  /\ UNCHANGED <<orgVars, runVars, semVars, stage, dept_i, completed, fetched, exc,
                 courses_complete, fmtVars, txtVars>>

\* the response arrives: lines 188-195, then line 218
DetailResponse ==
  /\ stage = "enrich" /\ net = "waiting"
  /\ \E individual_course_data \in Payloads :
       /\ processed_results' =
            [processed_results EXCEPT
               ![completed + 1] = WithDetails(@, filtered_data(individual_course_data))]
       /\ fetched' = Append(fetched, individual_course_data)
  /\ completed' = completed + 1
  /\ net' = "idle"
  /\ UNCHANGED <<all_course_data, seen_courses, idx, conv, pc, runVars, semVars,
                 stage, dept_i, request, exc, courses_complete, fmtVars, txtVars>>

\* the request fails (requests.post or response.json() raises): nothing
\* catches the exception, in add_course_details or in save_all_course_data
DetailFailure ==
  /\ stage = "enrich" /\ net = "waiting"
  /\ net' = "idle"
  /\ stage' = "aborted"
  /\ exc' = "get_course_details failed"
  /\ UNCHANGED <<orgVars, runVars, semVars, dept_i, completed, request, fetched,
                 courses_complete, fmtVars, txtVars>>

\* lines 220-221: json.dump of the enriched courses
SaveFile ==
  /\ stage = "enrich" /\ net = "idle" /\ completed = Len(processed_results)
  /\ courses_complete' = processed_results
  /\ stage' = "saved"
  /\ UNCHANGED <<orgVars, runVars, semVars, dept_i, completed, net, request,
                 fetched, exc, fmtVars, txtVars>>

\* ---------------------------------------------------------------- format.py
RELEVANT_KEY_MAPPINGS ==
  [code |-> "course_code",
   title |-> "course_title",
   semesters |-> "course_semester_offerings",
   details_key |-> "id",
   details_cart_opts |-> "grade_modes",
   details_seats |-> "enrollment_limit",
   details_description |-> "course_description",
   details_registration_restrictions |-> "registration_restrictions",
   details_clssnotes |-> "additional_information",
   details_attr_html |-> "curricular_programs",
   details_exam_html |-> "exam_datetime",
   details_meeting_html |-> "course_meeting_time",
   details_instructordetail_html |-> "instructor_information",
   details_regdemog_json |-> "registration_demographics"]

RECURSIVE JoinComma(_)
\* ', '.join(strings)
JoinComma(strings) ==
  IF Len(strings) = 0 THEN ""
  ELSE IF Len(strings) = 1 THEN strings[1]
  ELSE strings[1] \o ", " \o JoinComma(Tail(strings))

combine_with_and(strings) ==
  IF Len(strings) = 0 THEN ""
  ELSE IF Len(strings) = 1 THEN strings[1]
  ELSE IF Len(strings) = 2 THEN strings[1] \o " and " \o strings[2]
  ELSE JoinComma(SubSeq(strings, 1, Len(strings) - 1)) \o ", and "
         \o strings[Len(strings)]

\* pd.json_normalize(course_data, sep='_'): the columns one record gives
FlatKeys(course) ==
  (DOMAIN course \ {"details"}) \cup
  (IF "details" \in DOMAIN course
   THEN {"details_" \o key : key \in DOMAIN course.details} ELSE {})

FlatValue(course, column) ==
  IF column \in DOMAIN course \ {"details"} THEN course[column]
  ELSE IF column \in FlatKeys(course)
  THEN course.details[CHOOSE key \in DOMAIN course.details :
                        "details_" \o key = column]
  ELSE "None"

Columns(course_data) ==
  UNION {FlatKeys(course_data[k]) : k \in 1..Len(course_data)}

\* the columns left after course_df.rename (line 148)
RenamedColumns ==
  {RELEVANT_KEY_MAPPINGS[key] : key \in DOMAIN RELEVANT_KEY_MAPPINGS}

\* the row labels format_course reads (lines 124-129)
FormatCourseReads ==
  {"course_semester_offerings", "crns", "grade_modes",
   "registration_demographics", "all_sections", "exam_info"}

\* a row after the selection, the renaming and the list-join of line 124
FormatRow(course) ==
  [column \in RenamedColumns |->
     LET key == CHOOSE k \in DOMAIN RELEVANT_KEY_MAPPINGS :
                  RELEVANT_KEY_MAPPINGS[k] = column
     IN IF key = "semesters" THEN combine_with_and(course.semesters)
        ELSE FlatValue(course, key)]

\* format_saved_course_data_df on the saved file
Normalize ==
  /\ stage = "saved" /\ fmt_pc = "idle"
  /\ IF ~(DOMAIN RELEVANT_KEY_MAPPINGS \subseteq Columns(courses_complete))
     THEN \* line 147: selecting a column the frame does not have
          /\ fmt_pc' = "KeyError"
          /\ UNCHANGED formatted
     ELSE IF Len(courses_complete) > 0 /\ ~(FormatCourseReads \subseteq RenamedColumns)
     THEN \* line 125: format_course reads a label the row does not have
          /\ fmt_pc' = "KeyError"
          /\ UNCHANGED formatted
     ELSE /\ fmt_pc' = "formatted"
          /\ formatted' = [k \in 1..Len(courses_complete) |->
                             FormatRow(courses_complete[k])]
  /\ UNCHANGED <<orgVars, runVars, semVars, saveVars, txtVars>>

InitSave ==
  /\ all_course_data = <<>>
  /\ processed_results = <<>>
  /\ seen_courses = <<>>
  /\ idx = 0
  /\ conv = 0
  /\ pc = "idle"
  /\ run = 1
  /\ first_results = <<>>
  /\ srcdb = <<>>
  /\ sem_out = "pending"
  /\ stage = "fetch"
  /\ dept_i = 0
  /\ completed = 0
  /\ net = "idle"
  /\ request = <<>>
  /\ fetched = <<>>
  /\ exc = "none"
  /\ courses_complete = "absent"
  /\ fmt_pc = "idle"
  /\ formatted = "absent"
  /\ txt_data = <<>>
  /\ course_data_strings = <<>>
  /\ txt_pc = "idle"
  /\ txt_file = "absent"

NextSave ==
  \/ FetchDept \/ CallOrganize
  \/ Enter \/ LoopUnseen \/ LoopSeen \/ LoopEnd \/ ConvertOne \/ Return
  \/ OrganizeRaises \/ EnrichStart
  \/ SendDetailRequest \/ DetailResponse \/ DetailFailure \/ SaveFile
  \/ Normalize

SpecSave == InitSave /\ [][NextSave]_vars

\* ---------------------------------------------------------------- format_to_txt.py
MaxTxtCourses == 2
MaxAbsent == 2

None == "None"

SEPARATOR == "\n\n --- \n\n"

\* the keys formatted_json_to_txt reads in a course's 'details'
TxtDetailKeys ==
  {"description", "instructordetail_html", "meeting_html", "exam_html",
   "attr_html", "seats", "registration_info", "registration_restrictions",
   "registration_options", "clssnotes"}

TextOf(key) == "<" \o key \o ">"

\* a course of the formatted file in which the keys of `absent` are null
TxtCourse(absent) ==
  [code |-> TextOf("code"),
   title |-> TextOf("title"),
   semesters |-> IF "semesters" \in absent THEN None ELSE TextOf("semesters"),
   details |-> [key \in TxtDetailKeys |->
                  IF key \in absent THEN None ELSE TextOf(key)]]

TxtCourses ==
  {TxtCourse(absent) : absent \in {A \in SUBSET ({"semesters"} \cup TxtDetailKeys) :
                                     Cardinality(A) <= MaxAbsent}}

\* Python's truth value of a field: None and '' are false
Truthy(v) == v # None /\ v # ""

\* the values lines 18-42 concatenate to a str whatever they are
Concatenated(course) ==
  {course.code, course.title, course.semesters,
   course.details["description"], course.details["instructordetail_html"],
   course.details["meeting_html"], course.details["exam_html"],
   course.details["registration_info"],
   course.details["registration_restrictions"],
   course.details["registration_options"], course.details["clssnotes"]}
  \cup (IF Truthy(course.details["attr_html"])
        THEN {course.details["attr_html"]} ELSE {})
  \cup (IF Truthy(course.details["seats"])
        THEN {course.details["seats"]} ELSE {})

\* str + None raises TypeError
RaisesTypeError(course) == None \in Concatenated(course)

\* lines 17-42
course_string(course) ==
  course.code \o " - " \o course.title \o "\n"
  \o "Course Description: " \o course.details["description"] \o "\n"
  \o "This course will be offered in the " \o course.semesters \o "\n"
  \o "This course will be taught by " \o course.details["instructordetail_html"] \o "\n"
  \o "This course will meet on " \o course.details["meeting_html"] \o "\n"
  \o "The final exam for this course will be on " \o course.details["exam_html"] \o "\n"
  \o (IF Truthy(course.details["attr_html"])
      THEN "This course belongs to the following curricular programs: "
             \o course.details["attr_html"] \o "\n"
      ELSE "")
  \o "Enrollment info: \n"
  \o (IF Truthy(course.details["seats"])
      THEN " - " \o course.details["seats"] \o "\n" ELSE "")
  \o " - Enrollment demographics: " \o course.details["registration_info"] \o "\n"
  \o "Registration info: \n"
  \o " - Registration requirements: "
       \o course.details["registration_restrictions"] \o "\n"
  \o " - Grade Mode Options: " \o course.details["registration_options"] \o "\n"
  \o " - Additional registration information:" \o course.details["clssnotes"]

\* one iteration of `for course in course_data` (lines 16-47)
RenderCourse ==
  /\ txt_pc = "loop" /\ Len(course_data_strings) < Len(txt_data)
  /\ LET course == txt_data[Len(course_data_strings) + 1] IN
       IF RaisesTypeError(course)
       THEN /\ txt_pc' = "TypeError"
            /\ UNCHANGED course_data_strings
       ELSE /\ course_data_strings' =
                 Append(course_data_strings,
                        IF Len(course_data_strings) = 0 THEN course_string(course)
                        ELSE SEPARATOR \o course_string(course))
            /\ txt_pc' = txt_pc
  /\ UNCHANGED <<txt_data, txt_file, orgVars, runVars, semVars, saveVars, fmtVars>>

RECURSIVE Concat(_)
\* f.writelines(course_data_strings)
Concat(strings) ==
  IF Len(strings) = 0 THEN "" ELSE Head(strings) \o Concat(Tail(strings))

\* lines 49-50
WriteTxt ==
  /\ txt_pc = "loop" /\ Len(course_data_strings) = Len(txt_data)
  /\ txt_file' = Concat(course_data_strings)
  /\ txt_pc' = "written"
  /\ UNCHANGED <<txt_data, course_data_strings, orgVars, runVars, semVars,
                 saveVars, fmtVars>>

InitTxt ==
  /\ txt_data \in SeqsUpTo(TxtCourses, MaxTxtCourses)
  /\ course_data_strings = <<>>
  /\ txt_pc = "loop"
  /\ txt_file = "absent"
  /\ all_course_data = <<>>
  /\ processed_results = <<>>
  /\ seen_courses = <<>>
  /\ idx = 0
  /\ conv = 0
  /\ pc = "idle"
  /\ run = 1
  /\ first_results = <<>>
  /\ srcdb = <<>>
  /\ sem_out = "pending"
  /\ stage = "none"
  /\ dept_i = 0
  /\ completed = 0
  /\ net = "idle"
  /\ request = <<>>
  /\ fetched = <<>>
  /\ exc = "none"
  /\ courses_complete = "absent"
  /\ fmt_pc = "idle"
  /\ formatted = "absent"

NextTxt == RenderCourse \/ WriteTxt

SpecTxt == InitTxt /\ [][NextTxt]_vars

\* ---------------------------------------------------------------- get_semester alone
SemDigits == {"0", "1", "2", "5"}

TermCodes == UNION {[1..n -> SemDigits] : n \in 2..MaxTermLen}

CallGetSemester ==
  /\ sem_out = "pending" /\ pc = "idle"
  /\ sem_out' = get_semester(srcdb)
  /\ UNCHANGED <<srcdb, orgVars, runVars, saveVars, fmtVars, txtVars>>

\* nothing but get_semester runs: every other part is at rest
RestIdle ==
  /\ all_course_data = <<>>
  /\ processed_results = <<>>
  /\ seen_courses = <<>>
  /\ idx = 0
  /\ conv = 0
  /\ pc = "idle"
  /\ run = 1
  /\ first_results = <<>>
  /\ stage = "none"
  /\ dept_i = 0
  /\ completed = 0
  /\ net = "idle"
  /\ request = <<>>
  /\ fetched = <<>>
  /\ exc = "none"
  /\ courses_complete = "absent"
  /\ fmt_pc = "idle"
  /\ formatted = "absent"
  /\ txt_data = <<>>
  /\ course_data_strings = <<>>
  /\ txt_pc = "idle"
  /\ txt_file = "absent"

InitSem ==
  /\ srcdb \in TermCodes
  /\ sem_out = "pending"
  /\ RestIdle

NextSem == CallGetSemester

SpecSem == InitSem /\ [][NextSem]_vars

\* ---------------------------------------------------------------- the claims
\* what the claims read off a state
NumResults == Len(processed_results)

SemSet(k) ==
  IF k <= conv THEN Range(processed_results[k].semesters)
  ELSE processed_results[k].semesters

RawCodes == {all_course_data[n].code : n \in 1..Len(all_course_data)}

RawWithCode(c) == {n \in 1..Len(all_course_data) : all_course_data[n].code = c}

FirstIdx(c) == CHOOSE n \in RawWithCode(c) : \A m \in RawWithCode(c) : n <= m

PosOf(c) == CHOOSE k \in 1..NumResults : processed_results[k].code = c

LastTwo(s) == SubSeq(s, Len(s) - 1, Len(s))

\* the table of section 4.1 of the specification, on the last two characters
SuffixLabel(s) ==
  IF Len(s) < 2 THEN "Exception"
  ELSE IF LastTwo(s) = <<"1", "0">> THEN "Fall"
  ELSE IF LastTwo(s) = <<"1", "5">> THEN "Winter"
  ELSE IF LastTwo(s) = <<"2", "0">> THEN "Spring"
  ELSE IF LastTwo(s) = <<"0", "0">> THEN "Summer"
  ELSE "Exception"

\* C1: when organize_all_courses returns, the courses' codes are pairwise
\* distinct and every course has a non-empty crns list and a non-empty
\* semesters list.
C1_DistinctNonEmpty ==
  pc = "returned" =>
    /\ \A k, l \in 1..NumResults :
         k # l => processed_results[k].code # processed_results[l].code
    /\ \A k \in 1..NumResults :
         /\ Len(processed_results[k].crns) > 0
         /\ Len(processed_results[k].semesters) > 0

\* a returned result holding two courses, one of them merged from two entries
C1_Witness ==
  /\ pc = "returned" /\ run = 1
  /\ NumResults = 2
  /\ Len(all_course_data) = 3

\* C2: at every iteration boundary seen_courses[code] is the (0-based) index
\* in processed_results of the course with that code, and on return the
\* courses stand in the order in which their codes first occur in the input.
C2_FirstSeenOrder ==
  /\ pc \in {"loop", "convert", "returned"} =>
       /\ DOMAIN seen_courses = {processed_results[k].code : k \in 1..NumResults}
       /\ \A c \in DOMAIN seen_courses :
            /\ seen_courses[c] \in 0..(NumResults - 1)
            /\ processed_results[seen_courses[c] + 1].code = c
  /\ pc = "returned" =>
       /\ RawCodes = {processed_results[k].code : k \in 1..NumResults}
       /\ \A a, b \in RawCodes :
            a # b => (PosOf(a) < PosOf(b) <=> FirstIdx(a) < FirstIdx(b))

\* input a, b, a: the second code's course stays behind the first's
C2_Witness ==
  /\ pc = "returned" /\ run = 1
  /\ Len(all_course_data) = 3
  /\ all_course_data[1].code = all_course_data[3].code
  /\ all_course_data[1].code # all_course_data[2].code
  /\ NumResults = 2
  /\ processed_results[1].code = all_course_data[1].code
  /\ seen_courses[all_course_data[2].code] = 1

SameCourses(a, b) ==
  /\ Len(a) = Len(b)
  /\ \A k \in 1..Len(a) :
       /\ a[k].code = b[k].code
       /\ a[k].title = b[k].title
       /\ Range(a[k].semesters) = Range(b[k].semesters)
       /\ Range(a[k].crns) = Range(b[k].crns)

\* C3: a second call of organize_all_courses on the same raw sequence ends as
\* the first did, and when both return, with the same courses in the same
\* order, each with the same code, title, semester contents and CRN contents.
C3_SecondCallAgrees ==
  (run = 2 /\ pc \in {"returned", "raised"}) =>
    /\ first_results.outcome = pc
    /\ pc = "returned" => SameCourses(first_results.value, processed_results)

\* both calls returned a course with two CRNs, listed in different orders
C3_Witness ==
  /\ run = 2 /\ pc = "returned"
  /\ NumResults >= 1
  /\ Len(processed_results[1].crns) = 2
  /\ first_results.value[1].crns # processed_results[1].crns

\* C5: no course ever carries a semester label outside Fall, Winter, Spring,
\* Summer, and an entry whose term code has an unrecognized suffix is never
\* passed over: the loop does not get beyond it and the call does not return.
C5_OnlyKnownLabels ==
  /\ \A k \in 1..NumResults : SemSet(k) \subseteq SemesterLabels
  /\ pc \in {"loop", "convert", "returned"} =>
       \A n \in 1..idx : SuffixLabel(all_course_data[n].srcdb) # "Exception"
  /\ pc \in {"convert", "returned"} =>
       \A n \in 1..Len(all_course_data) :
         SuffixLabel(all_course_data[n].srcdb) # "Exception"

\* the error surfaced at the third entry, after two courses had been built
C5_Witness ==
  /\ pc = "raised" /\ run = 1
  /\ idx = 2 /\ NumResults = 2
  /\ SuffixLabel(all_course_data[3].srcdb) = "Exception"

C10_Returned ==
  pc = "returned" =>
    /\ RawCodes = {processed_results[k].code : k \in 1..NumResults}
    /\ \A k \in 1..NumResults :
         LET c == processed_results[k].code
             entries == {all_course_data[n] : n \in RawWithCode(c)}
         IN /\ Range(processed_results[k].crns) = {e.crn : e \in entries}
            /\ Len(processed_results[k].crns) = Cardinality({e.crn : e \in entries})
            /\ Range(processed_results[k].semesters) =
                 {SuffixLabel(e.srcdb) : e \in entries}
            /\ Len(processed_results[k].semesters) =
                 Cardinality({SuffixLabel(e.srcdb) : e \in entries})
            /\ processed_results[k].title = all_course_data[FirstIdx(c)].title
            /\ \A l \in 1..NumResults : processed_results[l].code = c => l = k

C10_Step ==
  (pc = "loop" /\ idx < Len(all_course_data) /\ idx' = idx + 1) =>
    LET e == all_course_data[idx + 1] IN
    \A k \in 1..NumResults :
      /\ processed_results[k].code # e.code =>
           processed_results'[k] = processed_results[k]
      /\ ( /\ processed_results[k].code = e.code
           /\ get_semester(e.srcdb) \in processed_results[k].semesters
           /\ e.crn \in processed_results[k].crns ) =>
           processed_results'[k] = processed_results[k]

\* C6: get_semester gives the label of the term code's last two characters
\* ("10" Fall, "15" Winter, "20" Spring, "00" Summer) and raises on any other
\* suffix, for term codes of every length of two or more.
C6_LastTwoDecide ==
  sem_out # "pending" => sem_out = SuffixLabel(srcdb)

\* C4: a failed detail fetch does not abort the run: the remaining courses
\* are still enriched and the file is still written, every course in it either
\* enriched or on record as failed (the code keeps no such record).
C4_PartialFailureTolerated ==
  /\ exc = "get_course_details failed" => stage \in {"enrich", "saved"}
  /\ stage \in {"saved", "aborted"} =>
       \A k \in 1..NumResults :
         (stage = "aborted" /\ k = completed + 1)
           \/ "details" \in DOMAIN processed_results[k]

\* the allow-list as the claim gives it: grade-mode JSON is the payload's cart_opts
ClaimAllowList ==
  {"description", "seats", "registration_restrictions", "clssnotes", "exam_html",
   "meeting_html", "instructordetail_html", "regdemog_json", "cart_opts",
   "all_sections", "resources_critical_review_html", "resources_syllabus_html",
   "resources_materials_html"}

C7_Details ==
  stage \in {"enrich", "saved", "aborted"} =>
    \A k \in 1..Len(fetched) :
      processed_results[k].details =
        [key \in ClaimAllowList \cap DOMAIN fetched[k] |-> fetched[k][key]]

C7_RestUnchanged ==
  (stage = "enrich" /\ completed' = completed + 1) =>
    LET old == processed_results[completed + 1]
        new == processed_results'[completed + 1]
    IN /\ new.code = old.code
       /\ new.title = old.title
       /\ new.semesters = old.semesters
       /\ new.crns = old.crns

\* C7: after add_course_details a course's details are exactly the payload's
\* allow-listed entries with the payload's values, nothing outside the
\* allow-list kept and nothing missing defaulted, and the course's code,
\* title, semesters and crns are as before.
C7_AllowListKept == []C7_Details /\ [][C7_RestUnchanged]_vars

\* the scenario of C9: two raw entries of one code, CRNs and term codes differing
TwoSections ==
  /\ stage \in {"enrich", "saved"}
  /\ Len(all_course_data) = 2
  /\ all_course_data[1].code = all_course_data[2].code
  /\ all_course_data[1].crn # all_course_data[2].crn
  /\ all_course_data[1].srcdb # all_course_data[2].srcdb

C9_Consolidated ==
  TwoSections => NumResults = 1 /\ Len(processed_results[1].crns) = 2

C9_Request ==
  (TwoSections /\ net = "waiting") =>
    request = [dept_code |-> SplitFirst(processed_results[1].code),
               crn |-> processed_results[1].crns[1]]

C9_Normalized ==
  (TwoSections /\ fmt_pc # "idle") =>
    /\ fmt_pc = "formatted"
    /\ Len(formatted) = 1
    /\ formatted[1].course_semester_offerings =
         combine_with_and(courses_complete[1].semesters)

\* C9: two raw entries of one code with different CRNs and term codes become
\* one course with two CRNs; its details are requested with the first CRN of
\* its list and the first token of its code; and the normalizer, run on the
\* saved record, yields the one record the renderer turns into a single
\* block, its semester sentence the list-join of the course's semesters.
C9_EndToEnd == C9_Consolidated /\ C9_Request /\ C9_Normalized

\* what the claim has a field's value render as
ClaimValue(v) == IF v = None THEN "" ELSE v

\* the block of C8: every label line, an absent value rendered empty; the
\* curricular-programs line only when the field is present
ClaimBlock(course) ==
  ClaimValue(course.code) \o " - " \o ClaimValue(course.title) \o "\n"
  \o "Course Description: " \o ClaimValue(course.details["description"]) \o "\n"
  \o "This course will be offered in the " \o ClaimValue(course.semesters) \o "\n"
  \o "This course will be taught by "
       \o ClaimValue(course.details["instructordetail_html"]) \o "\n"
  \o "This course will meet on " \o ClaimValue(course.details["meeting_html"]) \o "\n"
  \o "The final exam for this course will be on "
       \o ClaimValue(course.details["exam_html"]) \o "\n"
  \o (IF course.details["attr_html"] # None
      THEN "This course belongs to the following curricular programs: "
             \o course.details["attr_html"] \o "\n"
      ELSE "")
  \o "Enrollment info: \n"
  \o " - " \o ClaimValue(course.details["seats"]) \o "\n"
  \o " - Enrollment demographics: "
       \o ClaimValue(course.details["registration_info"]) \o "\n"
  \o "Registration info: \n"
  \o " - Registration requirements: "
       \o ClaimValue(course.details["registration_restrictions"]) \o "\n"
  \o " - Grade Mode Options: "
       \o ClaimValue(course.details["registration_options"]) \o "\n"
  \o " - Additional registration information:"
       \o ClaimValue(course.details["clssnotes"])

\* C8: rendering never fails on an absent field: every course rendered so far
\* has its block with each label line, absent values empty, and only the
\* curricular-programs line left out when its field is absent.
C8_AbsentRendersEmpty ==
  /\ txt_pc # "TypeError"
  /\ \A k \in 1..Len(course_data_strings) :
       course_data_strings[k] =
         (IF k = 1 THEN "" ELSE SEPARATOR) \o ClaimBlock(txt_data[k])

\* C10: on return the course of each code c has, duplicate-free, the CRNs of
\* the raw entries with code c, the semester labels those entries resolve to,
\* and the title of the first of them; an iteration whose entry brings a
\* semester and a CRN already present changes nothing, and no iteration
\* changes a course with another code.
C10_MergedContents == []C10_Returned /\ [][C10_Step]_vars

\* three entries of one code: the second brings a new CRN and semester and
\* another title, the third repeats the first
C10_Witness ==
  /\ pc = "returned" /\ run = 1
  /\ Len(all_course_data) = 3
  /\ NumResults = 1
  /\ all_course_data[3] = all_course_data[1]
  /\ all_course_data[2].title # all_course_data[1].title
  /\ Len(processed_results[1].crns) = 2
  /\ Len(processed_results[1].semesters) = 2

====
